---- MODULE Spec2Model ----
(***************************************************************************)
(* A state-machine model of the gameplay-and-training engine of            *)
(* flight_coach_ai: src/lib/game-engine.ts (class GameEngine) and          *)
(* src/lib/ml-trainer.ts (class MLTrainer).                                *)
(*                                                                         *)
(* Units.  Every length and velocity is an integer number of thousandths   *)
(* of a canvas unit: bird.pos.y = 300 is 300000 here, gravity = 0.2 is     *)
(* 200, the jump impulse -5 is -5000.  toFixed(2) therefore rounds.  A     *)
(* model output (a probability) is an integer number of tenths: 0.7 is 7.  *)
(*                                                                         *)
(* null is the empty sequence <<>> for dataBuffer and pausedState (a       *)
(* present value v is <<v>>) and 0 for model (NoModel).  A trained model   *)
(* is the positive number of the training run that produced it.            *)
(***************************************************************************)
EXTENDS Integers, Sequences, FiniteSets, TLC

\* ---------------------------------------------------------------- constants
\* canvas: width=400, height=600 (the <canvas> element the engine is built on)
canvasWidth == 400000
canvasHeight == 600000
\* Bird
birdX == 50000
birdY0 == 300000
birdRadius == 20000
\* Pipe
pipeWidth == 40000
gapSize == 200000
\* GameEngine constructor
gravity == 200
jumpStrength == -5000
pipeSpeed == 2000
pipeInterval == 250000
\* setupDataCollection: maxDataPoints of the underfitting level
maxDataPoints == 50
\* trainModel: minRequired per level
minFinetuning == 400
minUnderfitting == 50
minOverfitting == 200
\* MLTrainer.trainModel: the trainer's own floor, and the supplementary rows used
trainerFloor == 50
maxSupplementary == 500
\* model.fit: epochs
epochs == 150
\* makeAIPrediction: thresholds (tenths) and the recency window
baseThreshold == 5
raisedThreshold == 7
recencyWindow == 10

\* ------------------------------------------------------------------- bounds
\* live recording ticks a snapshot may wait for its label, rows recorded in one
\* behaviour, update() frames of one round, predictions requested, pending timers
\* and predictions, trainModel calls and CSV imports of one behaviour,
\* frames an AI round has run when a session with the AI at play begins
MaxAge == 2
MaxRecorded == 2
MaxFrames == 2
MaxPreds == 1
MaxTimers == 1
MaxPending == 1
MaxRuns == 2
MaxUploads == 1
FallFrames == 51
\* rows of a dataset whose balanced set is shuffled and split in every possible way
MaxRows == 5
\* jump impulses of the space key counted while the key is held
MaxHeldJumps == 2

Levels == {"finetuning", "underfitting", "overfitting"}
NoModel == 0
\* Math.random() * (canvasHeight - 300) + 150 lies in [150, 450)
RandomGapCenters == {150000, 449999}
\* the outputs a model may give (tenths): below both thresholds, between, above
PredOutputs == {4, 6, 8}

VARIABLES
    birdY, birdVel,         \* bird.pos.y, bird.vel.y
    pipes,                  \* sequence of [x, gapCenter, passed]
    score, highScore,
    state,                  \* "menu" | "playing" | "dead"
    keySpace,               \* keys[" "]
    prevSpace,
    nextPipeDist,
    gameStarted,
    hoverOffset,            \* in steps of 0.05
    currentLevel,
    isPaused, pausedState,
    jumpScheduled, dataBuffer,
    framesSinceLastJump,
    isRecording, isAI,
    dataset,                \* sequence of rows
    model, featureStats,
    delayOver,              \* Date.now() - gameOverTime > gameOverDelay
    restartTimers,          \* pending setTimeout(() => startGame(), 1000)
    pendingPreds,           \* predictions requested whose import() has not resolved
    runs,                   \* training runs in flight
    nRuns,                  \* training runs started so far (numbers the runs)
    nUploads,               \* files given to uploadCSV, this session
    progressCount, lastProgress,   \* onProgressUpdate: calls so far, last percent
    trainLog,               \* how each trainModel call ended, in order
    roundFrames,            \* frames update() has advanced in this round, this session
    nPreds,                 \* predictions requested so far
    nRecorded,              \* rows pushed by the recording tick so far
    bufAge,                 \* live recording ticks since dataBuffer was written
    jumpSinceSnap,          \* a human jump was scheduled since dataBuffer was written
    lastAlert,              \* the message of the last alert(), "" before the first
    downloaded,             \* the text of the last file downloadCSV wrote (<<>>: none)
    prepared,               \* the sets MLTrainer.trainModel built last: the balanced
                            \* rows, their shuffle, the train and the test rows, each
                            \* a sequence of positions in finalDataset (<<>>: none)
    passedOffScreen,        \* obstacles of this round that were marked passed when the
                            \* filter of update() dropped them
    lastDecision,           \* the last prediction evaluated in this round: the model's
                            \* output, framesSinceLastJump before it, and whether the
                            \* bird jumped (<<>>: none yet)
    lastPipe,               \* the obstacle created last in this round: its gap center,
                            \* the level and the actor at its creation (<<>>: none)
    heldJumps,              \* the space key as the player holds it: <<>> when it is up,
                            \* else the jump impulses update() has applied for the key
                            \* since it went down
    sinceJump,              \* predictions evaluated since the AI jumped last (since
                            \* construction before its first jump)
    reported,               \* the states onGameStateChange was called with by the command
                            \* or tick that ran last, in order
    progress,               \* for each trainModel call of the session, in order, the
                            \* reports it passed to onProgressUpdate: percent in
                            \* thousandths, and whether it is a per-epoch report
    bufferRow,              \* the place in the dataset of the object dataBuffer refers to,
                            \* 0 when that object is not an element of the dataset
    dataCount,              \* the last value passed to onDataCountUpdate, 0 before the
                            \* first call (the count the page shows)
    highScoreReports        \* the values passed to onHighScoreUpdate by the command or
                            \* tick that ran last, in order

birdVars == <<birdY, birdVel>>
roundVars == <<pipes, score, highScore, state, nextPipeDist, gameStarted, hoverOffset,
               delayOver, passedOffScreen, lastPipe>>
inputVars == <<keySpace, prevSpace, heldJumps>>
pauseVars == <<isPaused, pausedState>>
recVars == <<jumpScheduled, dataBuffer, isRecording, dataset, nRecorded, bufAge,
             jumpSinceSnap, bufferRow>>
aiVars == <<isAI, framesSinceLastJump, pendingPreds, restartTimers, nPreds, lastDecision,
            sinceJump>>
trainVars == <<model, featureStats, runs, nRuns, progressCount, lastProgress, trainLog,
               prepared, progress>>
miscVars == <<currentLevel, nUploads, roundFrames, lastAlert, downloaded, reported,
              dataCount, highScoreReports>>
vars == <<birdVars, roundVars, inputVars, pauseVars, recVars, aiVars, trainVars, miscVars>>

\* ------------------------------------------------------------------ helpers
Min(a, b) == IF a < b THEN a ELSE b

fixedGapCenter == canvasHeight \div 2

\* new Pipe(canvasHeight, x, fixedGapCenter?)
Pipe(x, gapCenter) == [x |-> x, gapCenter |-> gapCenter, passed |-> FALSE]

PipeTop(p) == p.gapCenter - gapSize \div 2
PipeBottom(p) == p.gapCenter + gapSize \div 2

\* pipes.filter((pipe) => pipe.x + pipe.width > bird.pos.x - bird.radius)
RECURSIVE AheadPipes(_)
AheadPipes(s) ==
    IF s = <<>> THEN <<>>
    ELSE IF Head(s).x + pipeWidth > birdX - birdRadius
         THEN <<Head(s)>> \o AheadPipes(Tail(s))
         ELSE AheadPipes(Tail(s))

\* insertion of p into a sequence sorted by x (stable: after equal keys)
RECURSIVE InsertByX(_, _)
InsertByX(s, p) ==
    IF s = <<>> THEN <<p>>
    ELSE IF Head(s).x <= p.x THEN <<Head(s)>> \o InsertByX(Tail(s), p)
    ELSE <<p>> \o s

RECURSIVE SortByX(_)
SortByX(s) == IF s = <<>> THEN <<>> ELSE InsertByX(SortByX(Tail(s)), Head(s))

Upcoming(ps) == SortByX(AheadPipes(ps))

\* getNextPipe(offset): <<>> for null, <<pipe>> otherwise
getNextPipe(ps, offset) ==
    LET up == Upcoming(ps)
    IN  IF Len(up) > offset THEN <<up[offset + 1]>> ELSE <<>>

\* getCurrentData(): the raw snapshot; pressed is written when the row is pushed.
\* lag and jumped are history fields, written with pressed: the number of live
\* recording ticks (engine not paused, round playing) from the snapshot to the push
\* (0: the row was not pushed by the recording tick), and whether a jump was
\* scheduled in between.
getCurrentData(y, vel, ps) ==
    LET next == getNextPipe(ps, 0)
        nextNext == getNextPipe(ps, 1)
    IN  [pressed |-> 0,
         y |-> y,
         vel |-> vel,
         dist |-> IF next # <<>> THEN next[1].x - birdX ELSE canvasWidth,
         mid1 |-> IF next # <<>> THEN next[1].gapCenter ELSE canvasHeight \div 2,
         mid2 |-> IF nextNext # <<>> THEN nextNext[1].gapCenter ELSE canvasHeight \div 2,
         lag |-> 0, jumped |-> FALSE]

\* Math.sin(hoverOffset) * 2 for hoverOffset = 0.05 * k, in thousandths, by the
\* Taylor polynomial x - x^3/6 + x^5/120 of the sine (k at most 60)
HoverVibration(k) == 100 * k - (k * k * k) \div 24 + (k * k * k * k * k) \div 192000

\* ------------------------------------------------------------------- state
\* The whole state as one record, so that a method of the engine is a function
\* from the state before the call to the state after it, and a handler that
\* calls several methods is their composition.
World ==
    [birdY |-> birdY, birdVel |-> birdVel, pipes |-> pipes, score |-> score,
     highScore |-> highScore, state |-> state, keySpace |-> keySpace,
     prevSpace |-> prevSpace, nextPipeDist |-> nextPipeDist,
     gameStarted |-> gameStarted, hoverOffset |-> hoverOffset,
     currentLevel |-> currentLevel, isPaused |-> isPaused,
     pausedState |-> pausedState, jumpScheduled |-> jumpScheduled,
     dataBuffer |-> dataBuffer, framesSinceLastJump |-> framesSinceLastJump,
     isRecording |-> isRecording, isAI |-> isAI, dataset |-> dataset,
     model |-> model, featureStats |-> featureStats, delayOver |-> delayOver,
     restartTimers |-> restartTimers, pendingPreds |-> pendingPreds,
     runs |-> runs, nRuns |-> nRuns, nUploads |-> nUploads,
     progressCount |-> progressCount, lastProgress |-> lastProgress,
     trainLog |-> trainLog, roundFrames |-> roundFrames, nPreds |-> nPreds,
     nRecorded |-> nRecorded, bufAge |-> bufAge,
     jumpSinceSnap |-> jumpSinceSnap, lastAlert |-> lastAlert,
     lastDecision |-> lastDecision, downloaded |-> downloaded,
     prepared |-> prepared, passedOffScreen |-> passedOffScreen,
     lastPipe |-> lastPipe,
     heldJumps |-> heldJumps,
     sinceJump |-> sinceJump,
     reported |-> <<>>,
     progress |-> progress,
     bufferRow |-> bufferRow,
     dataCount |-> dataCount,
     highScoreReports |-> <<>>]

Set(w) ==
    /\ birdY' = w.birdY /\ birdVel' = w.birdVel /\ pipes' = w.pipes
    /\ score' = w.score /\ highScore' = w.highScore /\ state' = w.state
    /\ keySpace' = w.keySpace /\ prevSpace' = w.prevSpace
    /\ nextPipeDist' = w.nextPipeDist /\ gameStarted' = w.gameStarted
    /\ hoverOffset' = w.hoverOffset /\ currentLevel' = w.currentLevel
    /\ isPaused' = w.isPaused /\ pausedState' = w.pausedState
    /\ jumpScheduled' = w.jumpScheduled /\ dataBuffer' = w.dataBuffer
    /\ framesSinceLastJump' = w.framesSinceLastJump
    /\ isRecording' = w.isRecording /\ isAI' = w.isAI /\ dataset' = w.dataset
    /\ model' = w.model /\ featureStats' = w.featureStats
    /\ delayOver' = w.delayOver /\ restartTimers' = w.restartTimers
    /\ pendingPreds' = w.pendingPreds /\ runs' = w.runs /\ nRuns' = w.nRuns
    /\ nUploads' = w.nUploads /\ progressCount' = w.progressCount
    /\ lastProgress' = w.lastProgress /\ trainLog' = w.trainLog
    /\ roundFrames' = w.roundFrames /\ nPreds' = w.nPreds
    /\ nRecorded' = w.nRecorded /\ bufAge' = w.bufAge
    /\ jumpSinceSnap' = w.jumpSinceSnap /\ lastAlert' = w.lastAlert
    /\ lastDecision' = w.lastDecision /\ downloaded' = w.downloaded
    /\ prepared' = w.prepared /\ passedOffScreen' = w.passedOffScreen
    /\ lastPipe' = w.lastPipe
    /\ heldJumps' = w.heldJumps
    /\ sinceJump' = w.sinceJump
    /\ reported' = w.reported
    /\ progress' = w.progress
    /\ bufferRow' = w.bufferRow
    /\ dataCount' = w.dataCount
    /\ highScoreReports' = w.highScoreReports

\* the initial condition that the state is w
Start(w) ==
    /\ birdY = w.birdY /\ birdVel = w.birdVel /\ pipes = w.pipes
    /\ score = w.score /\ highScore = w.highScore /\ state = w.state
    /\ keySpace = w.keySpace /\ prevSpace = w.prevSpace
    /\ nextPipeDist = w.nextPipeDist /\ gameStarted = w.gameStarted
    /\ hoverOffset = w.hoverOffset /\ currentLevel = w.currentLevel
    /\ isPaused = w.isPaused /\ pausedState = w.pausedState
    /\ jumpScheduled = w.jumpScheduled /\ dataBuffer = w.dataBuffer
    /\ framesSinceLastJump = w.framesSinceLastJump
    /\ isRecording = w.isRecording /\ isAI = w.isAI /\ dataset = w.dataset
    /\ model = w.model /\ featureStats = w.featureStats
    /\ delayOver = w.delayOver /\ restartTimers = w.restartTimers
    /\ pendingPreds = w.pendingPreds /\ runs = w.runs /\ nRuns = w.nRuns
    /\ nUploads = w.nUploads /\ progressCount = w.progressCount
    /\ lastProgress = w.lastProgress /\ trainLog = w.trainLog
    /\ roundFrames = w.roundFrames /\ nPreds = w.nPreds
    /\ nRecorded = w.nRecorded /\ bufAge = w.bufAge
    /\ jumpSinceSnap = w.jumpSinceSnap /\ lastAlert = w.lastAlert
    /\ lastDecision = w.lastDecision /\ downloaded = w.downloaded
    /\ prepared = w.prepared /\ passedOffScreen = w.passedOffScreen
    /\ lastPipe = w.lastPipe
    /\ heldJumps = w.heldJumps
    /\ sinceJump = w.sinceJump
    /\ reported = w.reported
    /\ progress = w.progress
    /\ bufferRow = w.bufferRow
    /\ dataCount = w.dataCount
    /\ highScoreReports = w.highScoreReports

\* new GameEngine(canvas): the state after construction.  gameOverTime = 0, so
\* Date.now() - gameOverTime > gameOverDelay holds.
constructed ==
    [birdY |-> birdY0, birdVel |-> 0, pipes |-> <<>>, score |-> 0,
     highScore |-> 0, state |-> "menu", keySpace |-> FALSE,
     prevSpace |-> FALSE, nextPipeDist |-> 0,
     gameStarted |-> FALSE, hoverOffset |-> 0,
     currentLevel |-> "finetuning", isPaused |-> FALSE,
     pausedState |-> <<>>, jumpScheduled |-> FALSE,
     dataBuffer |-> <<>>, framesSinceLastJump |-> 0,
     isRecording |-> FALSE, isAI |-> FALSE, dataset |-> <<>>,
     model |-> NoModel, featureStats |-> <<>>, delayOver |-> TRUE,
     restartTimers |-> 0, pendingPreds |-> 0,
     runs |-> <<>>, nRuns |-> 0, nUploads |-> 0,
     progressCount |-> 0, lastProgress |-> 0,
     trainLog |-> <<>>, roundFrames |-> 0, nPreds |-> 0,
     nRecorded |-> 0, bufAge |-> 0,
     jumpSinceSnap |-> FALSE, lastAlert |-> "", lastDecision |-> <<>>,
     downloaded |-> <<>>, prepared |-> <<>>, passedOffScreen |-> 0,
     lastPipe |-> <<>>,
     heldJumps |-> <<>>,
     sinceJump |-> 0,
     reported |-> <<>>,
     progress |-> <<>>,
     bufferRow |-> 0,
     dataCount |-> 0,
     highScoreReports |-> <<>>]

\* ----------------------------------------------------------- round control
\* what is noted of an obstacle created in state w with gap center gc
created(w, gc) == <<[gapCenter |-> gc, level |-> w.currentLevel, isAI |-> w.isAI]>>

\* startGame(); rnd is the value Math.random() gives the Pipe constructor when no
\* fixed gap centre is passed
startGame(w, rnd) ==
    [w EXCEPT !.birdY = birdY0, !.birdVel = 0,
              !.pipes = <<Pipe(canvasWidth,
                               IF w.currentLevel = "overfitting"
                               THEN fixedGapCenter ELSE rnd)>>,
              !.lastPipe = created(w, IF w.currentLevel = "overfitting"
                                      THEN fixedGapCenter ELSE rnd),
              !.nextPipeDist = pipeInterval,
              !.score = 0, !.passedOffScreen = 0,
              !.state = "playing", !.reported = Append(@, "playing"),
              !.prevSpace = FALSE,
              !.keySpace = FALSE,
              !.framesSinceLastJump = 0, !.lastDecision = <<>>,
              !.dataBuffer = <<>>, !.bufferRow = 0,
              !.jumpScheduled = FALSE,
              !.jumpSinceSnap = FALSE, !.bufAge = 0,   \* no snapshot is left to label
              !.roundFrames = 0,
              !.gameStarted = FALSE,
              !.hoverOffset = 0]

\* an endGame() that keeps the score of the last round as the high score
\* (C39_HighScore must tell)
endGameLastScore(w) ==
    [w EXCEPT !.state = "dead", !.reported = Append(@, "dead"),
              !.delayOver = FALSE,
              !.highScore = w.score,
              !.highScoreReports = IF w.score > w.highScore THEN Append(@, w.score) ELSE @,
              !.restartTimers = IF w.isAI THEN @ + 1 ELSE @]

\* endGame(): the auto-restart timer is set when the AI is the actor
endGame(w) ==
    [w EXCEPT !.state = "dead", !.reported = Append(@, "dead"),
              !.delayOver = FALSE,
              !.highScore = IF w.score > w.highScore THEN w.score ELSE w.highScore,
              !.highScoreReports = IF w.score > w.highScore THEN Append(@, w.score) ELSE @,
              !.restartTimers = IF w.isAI THEN @ + 1 ELSE @]

\* the body of update()'s loop over the pipes, from pipe i on: each pipe moves,
\* a collision ends the loop (the pipes after it are not moved), a pipe whose
\* right edge is left of the bird's x is marked passed and counted
\* a collision test that knows the upper pipe only (C18_Collision must tell)
collidesAbove(p, y) ==
    /\ birdX + birdRadius > p.x
    /\ birdX - birdRadius < p.x + pipeWidth
    /\ y - birdRadius < PipeTop(p)
\* update(), "Collision detection", for the pipe p and the bird at height y
collides(p, y) ==
    /\ birdX + birdRadius > p.x
    /\ birdX - birdRadius < p.x + pipeWidth
    /\ \/ y - birdRadius < PipeTop(p)
       \/ y + birdRadius > PipeBottom(p)

\* a score update that does not look at pipe.passed (C17_ScoreCountsPassed must tell)
passesAgain(p) == p.x + pipeWidth < birdX
\* update(), "Score update": the condition
passes(p) == p.x + pipeWidth < birdX /\ ~p.passed

RECURSIVE movePipes(_, _, _, _)
movePipes(ps, i, y, sc) ==
    IF i > Len(ps) THEN [pipes |-> ps, score |-> sc, hit |-> FALSE]
    ELSE LET p == [ps[i] EXCEPT !.x = @ - pipeSpeed]
         IN  IF collides(p, y)
             THEN [pipes |-> [ps EXCEPT ![i] = p], score |-> sc, hit |-> TRUE]
             ELSE movePipes([ps EXCEPT ![i] = IF passes(p) THEN [p EXCEPT !.passed = TRUE]
                                               ELSE p],
                            i + 1, y, IF passes(p) THEN sc + 1 ELSE sc)

\* a filter that hands the obstacles back newest first (C33_SpawnOrder must tell)
onScreenNewestFirst(ps) ==
    LET kept == SelectSeq(ps, LAMBDA p : p.x + pipeWidth > 0)
    IN  [k \in 1..Len(kept) |-> kept[Len(kept) + 1 - k]]
\* pipes.filter((pipe) => pipe.x + pipe.width > 0)
RECURSIVE onScreen(_)
onScreen(ps) ==
    IF ps = <<>> THEN <<>>
    ELSE IF Head(ps).x + pipeWidth > 0 THEN <<Head(ps)>> \o onScreen(Tail(ps))
    ELSE onScreen(Tail(ps))

\* update(), "Handle user input": the edge-triggered jump of the space key
handleUserInput(w) ==
    IF ~w.isAI /\ w.keySpace /\ ~w.prevSpace
    THEN [w EXCEPT !.birdVel = jumpStrength, !.prevSpace = TRUE,
                   !.jumpScheduled = TRUE, !.jumpSinceSnap = (w.dataBuffer # <<>>),
                   !.gameStarted = TRUE,
                   !.heldJumps = IF @ = <<>> THEN @ ELSE <<@[1] + 1>>]
    ELSE w

\* update(), "Check boundaries"
checkBoundaries(w) ==
    IF (w.gameStarted \/ w.isAI)
       /\ (w.birdY + birdRadius > canvasHeight \/ w.birdY - birdRadius < 0)
    THEN endGame(w)
    ELSE w

\* update(), the branch taken once the round has started or the AI plays
physicsStep(w, rnd) ==
    LET vel1 == w.birdVel + gravity
        y1 == w.birdY + vel1
        dist1 == w.nextPipeDist - pipeSpeed
        spawn == dist1 <= 0
        gc == IF w.currentLevel = "overfitting" /\ ~w.isAI THEN fixedGapCenter ELSE rnd
        pipes1 == IF spawn THEN Append(w.pipes, Pipe(canvasWidth, gc)) ELSE w.pipes
        moved == movePipes(onScreen(pipes1), 1, y1, w.score)
        dropped == SelectSeq(pipes1, LAMBDA p : p.x + pipeWidth <= 0 /\ p.passed)
        w1 == [w EXCEPT !.birdVel = vel1, !.birdY = y1,
                        !.nextPipeDist = IF spawn THEN pipeInterval ELSE dist1,
                        !.pipes = moved.pipes, !.score = moved.score,
                        !.passedOffScreen = @ + Len(dropped),
                        !.lastPipe = IF spawn THEN created(w, gc) ELSE @]
    IN  IF moved.hit THEN endGame(w1)
        ELSE checkBoundaries(handleUserInput(w1))

\* a hover that lets the bird fall (C26_Hovering must tell)
hoverStepFalling(w) ==
    checkBoundaries(handleUserInput(
        [w EXCEPT !.birdVel = @ + gravity, !.birdY = @ + w.birdVel + gravity]))
\* update(), the branch taken before the first jump: the bird hovers
hoverStep(w) ==
    LET h == w.hoverOffset + 1
    IN  checkBoundaries(handleUserInput(
            [w EXCEPT !.hoverOffset = h, !.birdY = birdY0 + HoverVibration(h)]))

\* update()
update(w, rnd) ==
    IF w.isPaused \/ w.state # "playing" THEN w
    ELSE LET w1 == [w EXCEPT !.roundFrames = @ + 1]
         IN  IF w.gameStarted \/ w.isAI THEN physicsStep(w1, rnd) ELSE hoverStep(w1)

\* ------------------------------------------------------------------- input
\* document keydown listener, for the space key
keydown(w, rnd) ==
    LET w0 == [w EXCEPT !.heldJumps = IF @ = <<>> THEN <<0>> ELSE @]
    IN
    IF w0.isPaused THEN w0
    ELSE LET w1 == [w0 EXCEPT !.keySpace = TRUE]
         IN  IF (w1.state = "menu" \/ (w1.state = "dead" /\ w1.delayOver)) /\ ~w1.isAI
             THEN startGame(w1, rnd)
             ELSE w1

\* document keyup listener, for the space key
keyup(w) ==
    IF w.isPaused THEN [w EXCEPT !.heldJumps = <<>>]
    ELSE [w EXCEPT !.keySpace = FALSE, !.prevSpace = FALSE, !.heldJumps = <<>>]

\* canvas click listener
click(w, rnd) ==
    IF w.isPaused THEN w
    ELSE IF w.state = "playing" /\ ~w.isAI
    THEN [w EXCEPT !.birdVel = jumpStrength, !.jumpScheduled = TRUE,
                   !.jumpSinceSnap = (w.dataBuffer # <<>>), !.gameStarted = TRUE]
    ELSE IF (w.state = "menu" \/ (w.state = "dead" /\ w.delayOver)) /\ ~w.isAI
    THEN startGame(w, rnd)
    ELSE w

\* ---------------------------------------------------------------- recording
startRecording(w) == [w EXCEPT !.isRecording = TRUE, !.dataBuffer = <<>>, !.bufferRow = 0,
                               !.jumpSinceSnap = FALSE, !.bufAge = 0]
\* a pauseRecording() that leaves the flag alone (C3_PausedAtNextTick must tell)
pauseRecordingLost(w) == w
pauseRecording(w) == [w EXCEPT !.isRecording = FALSE]
resumeRecording(w) == [w EXCEPT !.isRecording = TRUE]

\* this.dataset.push(row): the array is changed in place, so a training run that
\* was handed the same array and has not copied it yet sees the row too
pushRow(w, row) ==
    [w EXCEPT !.dataset = Append(@, row),
              !.runs = [i \in DOMAIN @ |->
                          IF @[i].aliased /\ @[i].stage = "import"
                          THEN [@[i] EXCEPT !.ds = Append(@, row)]
                          ELSE @[i]]]

\* the label is written into the object dataBuffer refers to, and so into the
\* row of the dataset that is the same object
labelled(w) ==
    [w.dataBuffer[1] EXCEPT !.pressed = IF w.jumpScheduled THEN 1 ELSE 0,
                            !.lag = w.bufAge,
                            !.jumped = w.jumpSinceSnap]
labelWritten(w) ==
    IF w.dataBuffer # <<>> /\ w.bufferRow # 0
    THEN [w EXCEPT !.dataset[w.bufferRow] = labelled(w)]
    ELSE w

\* a tick that appends the new snapshot at once and labels it one tick later
\* (C37_AppendedRowsFixed must tell)
recordRowEarly(w) ==
    LET w1 == IF w.dataBuffer # <<>>
              THEN [labelWritten(w) EXCEPT !.nRecorded = @ + 1]
              ELSE w
        w2 == [pushRow(w1, getCurrentData(w.birdY, w.birdVel, w.pipes))
               EXCEPT !.dataCount = Len(w.dataset) + 1]
    IN  [w2 EXCEPT !.dataBuffer = <<getCurrentData(w.birdY, w.birdVel, w.pipes)>>,
                   !.bufferRow = Len(w2.dataset),
                   !.jumpScheduled = FALSE,
                   !.jumpSinceSnap = FALSE, !.bufAge = 0]

\* setupDataCollection, the else branch: label and push the buffered snapshot,
\* then buffer the current one
recordRow(w) ==
    LET w1 == IF w.dataBuffer # <<>>
              THEN [pushRow(labelWritten(w), labelled(w))
                    EXCEPT !.nRecorded = @ + 1, !.dataCount = Len(w.dataset) + 1]
              ELSE w
    IN  [w1 EXCEPT !.dataBuffer = <<getCurrentData(w.birdY, w.birdVel, w.pipes)>>,
                   !.bufferRow = 0,
                   !.jumpScheduled = FALSE,
                   !.jumpSinceSnap = FALSE, !.bufAge = 0]

\* makeAIPrediction(): the features are read now, the decision is taken when the
\* import() promise resolves
makeAIPrediction(w) == [w EXCEPT !.pendingPreds = @ + 1, !.nPreds = @ + 1]

\* one threshold whatever the recency (C16_AdaptiveThreshold must tell)
flatThreshold(frames) == baseThreshold
\* this.framesSinceLastJump < 10 ? 0.7 : baseThreshold
adjustedThreshold(frames) ==
    IF frames < recencyWindow THEN raisedThreshold ELSE baseThreshold

\* the .then callback of makeAIPrediction; pred is the model's output.  With
\* this.model null the call this.model.predict throws and .catch logs it.
predictionResolved(w, pred) ==
    LET w1 == [w EXCEPT !.pendingPreds = @ - 1]
        decided(jumped) == <<[output |-> pred, since |-> w.framesSinceLastJump,
                              jumped |-> jumped]>>
    IN  IF w.model = NoModel THEN w1
        ELSE IF pred > adjustedThreshold(w.framesSinceLastJump)
        THEN [w1 EXCEPT !.birdVel = jumpStrength, !.framesSinceLastJump = 0,
                        !.lastDecision = decided(TRUE), !.sinceJump = 0]
        ELSE [w1 EXCEPT !.framesSinceLastJump = @ + 1,
                        !.lastDecision = decided(FALSE), !.sinceJump = @ + 1]

\* a level without a cap on the dataset (C2_UnderfittingCap must tell)
noMaxDataPoints(w) == FALSE
\* maxDataPoints && this.dataset.length >= maxDataPoints
reachedMaxDataPoints(w) ==
    w.currentLevel = "underfitting" /\ Len(w.dataset) >= maxDataPoints

\* a tick that records before the first jump too (C20_GatedTick must tell)
collectsUnstarted(w) == w.isRecording
\* this.isRecording && this.gameStarted
collects(w) == w.isRecording /\ w.gameStarted

\* the setInterval callback of setupDataCollection (every 100 ms)
recordingTick(w) ==
    IF w.isPaused \/ w.state # "playing" THEN w
    ELSE LET w0 == [w EXCEPT !.bufAge = IF w.dataBuffer # <<>> THEN @ + 1 ELSE 0]
             w1 == IF collects(w0)
                   THEN IF reachedMaxDataPoints(w0)
                        THEN pauseRecording(w0)
                        ELSE recordRow(w0)
                   ELSE w0
         IN  IF w1.isAI /\ w1.model # NoModel THEN makeAIPrediction(w1) ELSE w1

\* ----------------------------------------------------------------- commands
\* alert(message)
alert(w, message) == [w EXCEPT !.lastAlert = message]

\* a setLevel that leaves the recording flag alone (C19_LevelChangeStopsRecording
\* must tell)
setLevelOnly(w, level) ==
    [w EXCEPT !.currentLevel = level,
              !.runs = [i \in DOMAIN @ |-> [@[i] EXCEPT !.stale = TRUE]]]

\* setLevel(level)
setLevel(w, level) ==
    [w EXCEPT !.currentLevel = level, !.isRecording = FALSE,
              !.runs = [i \in DOMAIN @ |-> [@[i] EXCEPT !.stale = TRUE]]]

\* a clearDataset() that does not tell the page (C38_CountFollowsDataset must tell)
clearDatasetSilent(w) ==
    [w EXCEPT !.dataset = <<>>, !.bufferRow = 0,
              !.runs = [i \in DOMAIN @ |-> [@[i] EXCEPT !.aliased = FALSE]]]

\* clearDataset()
clearDataset(w) ==
    [w EXCEPT !.dataset = <<>>, !.bufferRow = 0, !.dataCount = 0,
              !.runs = [i \in DOMAIN @ |-> [@[i] EXCEPT !.aliased = FALSE]]]

\* a startAI() without the check of the model (C11_StartAIWithoutModel must tell)
startAIUnchecked(w, rnd) ==
    LET w1 == [w EXCEPT !.isAI = TRUE]
    IN  IF w1.state = "menu" \/ w1.state = "dead" THEN startGame(w1, rnd) ELSE w1

\* startAI()
startAI(w, rnd) ==
    IF w.model = NoModel THEN alert(w, "Train the model first!")
    ELSE LET w1 == [w EXCEPT !.isAI = TRUE]
         IN  IF w1.state = "menu" \/ w1.state = "dead" THEN startGame(w1, rnd) ELSE w1

stopAI(w) ==
    LET w1 == [w EXCEPT !.isAI = FALSE]
    IN  IF w1.state = "playing" THEN endGame(w1) ELSE w1

\* a restart() that builds the engine anew and keeps the level alone
\* (C36_RestartEffect must tell)
restartFresh(w) == [constructed EXCEPT !.currentLevel = w.currentLevel]

\* restart(): gameOverTime = 0 makes the restart delay count as elapsed.  Pending
\* timers, predictions and training runs are not cancelled.
restart(w) ==
    [w EXCEPT !.birdY = birdY0, !.birdVel = 0,
              !.pipes = <<>>, !.lastPipe = <<>>,
              !.score = 0, !.passedOffScreen = 0,
              !.state = "menu", !.reported = Append(@, "menu"),
              !.keySpace = FALSE,
              !.prevSpace = FALSE,
              !.framesSinceLastJump = 0, !.lastDecision = <<>>,
              !.dataBuffer = <<>>, !.bufferRow = 0,
              !.jumpScheduled = FALSE,
              !.jumpSinceSnap = FALSE, !.bufAge = 0,
              !.roundFrames = 0,
              !.gameStarted = FALSE,
              !.hoverOffset = 0,
              !.delayOver = TRUE,
              !.dataset = <<>>, !.dataCount = 0,
              !.isRecording = FALSE,
              !.isAI = FALSE,
              !.model = NoModel,
              !.featureStats = <<>>,
              !.runs = [i \in DOMAIN @ |-> [@[i] EXCEPT !.aliased = FALSE, !.stale = TRUE]]]

pause(w) ==
    IF w.isPaused THEN w
    ELSE [w EXCEPT !.isPaused = TRUE,
                   !.pausedState = <<[gameState |-> w.state,
                                      gameStarted |-> w.gameStarted,
                                      hoverOffset |-> w.hoverOffset]>>]

resume(w) ==
    IF ~w.isPaused THEN w
    ELSE [w EXCEPT !.isPaused = FALSE, !.pausedState = <<>>]

\* ------------------------------------------------------------------ CSV text
\* The text of a number: its sign, its integer part and the digits after the
\* point (<<>>: no point).  "-4.80" is [neg |-> TRUE, whole |-> 4, frac |-> <<8, 0>>].
NumText(neg, whole, frac) == [neg |-> neg, whole |-> whole, frac |-> frac]

Abs(v) == IF v < 0 THEN -v ELSE v

\* a toFixed(2) that cuts the digits after the second (C13_RoundTrip must tell)
toFixedCut(v) ==
    NumText(v < 0, Abs(v) \div 1000, <<(Abs(v) \div 100) % 10, (Abs(v) \div 10) % 10>>)
\* Number.prototype.toFixed(2): the sign, then the hundredth nearest to the
\* magnitude, the larger one of two equally near
toFixed(v) ==
    LET n == (Abs(v) + 5) \div 10
    IN  NumText(v < 0, n \div 100, <<(n \div 10) % 10, n % 10>>)

\* `${row.pressed}`
intText(n) == NumText(n < 0, Abs(n), <<>>)

\* Number.parseFloat of a number's text (three digits after the point at most)
parseFloat(t) ==
    LET digit(i) == IF i <= Len(t.frac) THEN t.frac[i] ELSE 0
        m == t.whole * 1000 + digit(1) * 100 + digit(2) * 10 + digit(3)
    IN  IF t.neg THEN -m ELSE m

\* Number.parseInt of a number's text: the digits before the point
parseInt(t) == IF t.neg THEN -t.whole ELSE t.whole

\* the line downloadCSV writes for a row: its fields, as split(",") gives them
csvLine(row) ==
    <<intText(row.pressed), toFixed(row.y), toFixed(row.vel), toFixed(row.dist),
      toFixed(row.mid1), toFixed(row.mid2)>>

\* the row uploadCSV builds from the six fields of a line
UploadRow(values) ==
    [pressed |-> parseInt(values[1]), y |-> parseFloat(values[2]),
     vel |-> parseFloat(values[3]), dist |-> parseFloat(values[4]),
     mid1 |-> parseFloat(values[5]), mid2 |-> parseFloat(values[6]),
     lag |-> 0, jumped |-> FALSE]

\* a data line: the snapshot of the bird at rest at its first position, no
\* obstacle ahead, with the label pressed
Line(pressed) ==
    csvLine([getCurrentData(birdY0, 0, <<>>) EXCEPT !.pressed = pressed])
\* the same line cut after its fifth field
ShortLine == SubSeq(Line(0), 1, 5)
Lines(n, pressed) == [i \in 1..n |-> Line(pressed)]

HeaderLine == "pressed,y,vel,dist,mid1,mid2"

\* a file: the header line, then n data lines without a jump, j with a jump, and
\* a line that is one field short
File(n, j) == [header |-> HeaderLine, lines |-> Lines(n, 0) \o Lines(j, 1) \o <<ShortLine>>]

\* the files offered to uploadCSV
UploadFiles ==
    { File(49, 0), File(50, 0), File(49, 1), File(399, 1), File(0, 0),
      [header |-> "y,vel,dist,mid1,mid2,pressed", lines |-> Lines(1, 1)] }

\* files written by hand: digits beyond the second after the point, halfway
\* cases and a magnitude that rounds to zero, lines of five and of seven fields;
\* a file without a line of six fields; a file whose header has another order
SmallFiles ==
    LET precise == <<intText(1), NumText(FALSE, 300, <<2, 9, 9>>),
                     NumText(TRUE, 4, <<8>>), NumText(FALSE, 0, <<1, 2, 5>>),
                     NumText(TRUE, 0, <<3, 7, 5>>), NumText(TRUE, 0, <<0, 0, 1>>)>>
        LongLine == Line(1) \o <<intText(0)>>
    IN  { [header |-> HeaderLine, lines |-> <<LongLine, precise, ShortLine, Line(0)>>],
          [header |-> HeaderLine, lines |-> <<Line(1)>>],
          [header |-> HeaderLine, lines |-> <<precise, precise>>],
          [header |-> HeaderLine, lines |-> <<ShortLine, LongLine>>],
          [header |-> "y,vel,dist,mid1,mid2,pressed", lines |-> <<Line(0)>>] }

\* the loop of reader.onload that ends at the first line without six fields
\* (C12_UploadAppendsOrRejects must tell)
RECURSIVE parseLinesUntilBad(_)
parseLinesUntilBad(ls) ==
    IF ls = <<>> \/ Len(Head(ls)) # 6 THEN <<>>
    ELSE <<UploadRow(Head(ls))>> \o parseLinesUntilBad(Tail(ls))

\* the loop of reader.onload: the rows of the lines with exactly six fields
parseLines(ls) ==
    LET kept == SelectSeq(ls, LAMBDA l : Len(l) = 6)
    IN  [i \in DOMAIN kept |-> UploadRow(kept[i])]

\* reader.onload of uploadCSV(file)
uploadCSV(w, file) ==
    LET newData == parseLines(file.lines)
        w1 == [w EXCEPT !.nUploads = @ + 1]
    IN  IF file.header # HeaderLine THEN alert(w1, "Invalid CSV format!")
        ELSE IF Len(newData) > 0
        THEN alert([w1 EXCEPT !.dataset = w.dataset \o newData,
                              !.dataCount = Len(w.dataset) + Len(newData),
                              !.runs = [i \in DOMAIN @ |->
                                          [@[i] EXCEPT !.aliased = FALSE]]],
                   "Successfully loaded")
        ELSE alert(w1, "No valid data found in CSV!")

\* downloadCSV(): the text handed to the browser as flappy_data.csv
downloadCSV(w) ==
    IF Len(w.dataset) = 0 THEN alert(w, "No data to download!")
    ELSE [w EXCEPT !.downloaded =
                      <<[header |-> HeaderLine,
                         lines |-> [i \in DOMAIN w.dataset |-> csvLine(w.dataset[i])]]>>]

\* ------------------------------------------------------------------- training
\* the trainer's floor as the minimum of every level (C10_BelowMinimumRejected
\* must tell)
minRequiredFloor(level) == trainerFloor
\* GameEngine.trainModel: minRequired
minRequired(level) ==
    IF level = "finetuning" THEN minFinetuning
    ELSE IF level = "underfitting" THEN minUnderfitting
    ELSE minOverfitting

\* every row counted as a jump (C9_FailedRunKeepsModel must tell)
class1CountAll(ds) == Len(ds)
\* finalDataset.filter((d) => d.pressed === 1).length
class1Count(ds) == Cardinality({i \in DOMAIN ds : ds[i].pressed = 1})

\* onProgressUpdate called n times, the last time with percent
report(w, n, percent) ==
    [w EXCEPT !.progressCount = @ + n, !.lastProgress = percent]

\* a report at a stage of the pipeline, and the report after an epoch:
\* 70 + (epoch / 150) * 20
stageReport(percent) == [percent |-> percent * 1000, epoch |-> FALSE]
\* per-epoch reports that run up to 100 (C31_ProgressReports must tell)
epochProgressFull(epoch) == 70000 + (epoch * 30000) \div epochs
epochProgress(epoch) == 70000 + (epoch * 20000) \div epochs
epochReports == [e \in 1..epochs |-> [percent |-> epochProgress(e - 1), epoch |-> TRUE]]

\* the reports rs are passed to onProgressUpdate by the run with the given id
told(w, id, rs) == [w EXCEPT !.progress[id] = @ \o rs]

\* how a trainModel call ended: "rejected" (below the level's minimum, no run),
\* "error" (the promise is rejected with the trainer's error) or "ok"
logged(w, id, outcome, stale) ==
    [w EXCEPT !.trainLog = Append(@, [id |-> id, outcome |-> outcome, stale |-> stale])]

\* the sequence s without its element i
Without(s, i) == SubSeq(s, 1, i - 1) \o SubSeq(s, i + 1, Len(s))

\* GameEngine.trainModel() up to its await: the check of the level's minimum,
\* the first progress report, and MLTrainer.trainModel up to `await import(...)`.
\* The run keeps the array it was handed (aliased: it is still this.dataset) and
\* the level of the call.
trainModel(w) ==
    LET id == w.nRuns + 1
        w1 == [w EXCEPT !.nRuns = id, !.progress = Append(@, <<>>)]
    IN  IF Len(w.dataset) < minRequired(w.currentLevel)
        THEN alert(logged(w1, id, "rejected", FALSE), "Need at least")
        ELSE LET w2 == told(report(w1, 1, 10), id, <<stageReport(10)>>)
             IN  IF Len(w.dataset) < trainerFloor
                 THEN logged(w2, id, "error", FALSE)
                 ELSE [w2 EXCEPT !.runs = Append(@, [id |-> id, stage |-> "import",
                                                     level |-> w.currentLevel,
                                                     ds |-> w.dataset,
                                                     aliased |-> TRUE,
                                                     stale |-> FALSE])]

\* the catch block of GameEngine.trainModel: the error is logged and thrown again
trainFailed(w, i) ==
    logged([w EXCEPT !.runs = Without(@, i)], w.runs[i].id, "error", w.runs[i].stale)

\* MLTrainer.trainModel from the raw features to `await model.fit(...)`:
\* progress 30, the class balance (no pressed = 1 row: the run fails), then
\* progress 50, 60 and 70
trainerPrepare(w, i, finalDataset) ==
    LET id == w.runs[i].id
        w1 == told(report(w, 1, 30), id, <<stageReport(30)>>)
    IN  IF class1Count(finalDataset) > 0
        THEN [told(report(w1, 3, 70), id,
                   <<stageReport(50), stageReport(60), stageReport(70)>>)
                 EXCEPT !.runs[i].stage = "fit",
                        !.runs[i].ds = finalDataset]
        ELSE trainFailed(w1, i)

\* the continuation of `await import("@tensorflow/tfjs")` in MLTrainer.trainModel
\* (loaded: whether the import succeeded): progress 10, the copy of the dataset,
\* and for the fine-tuning level progress 15 and the fetch
trainerImported(w, i, loaded) ==
    IF ~loaded THEN trainFailed(w, i)
    ELSE LET id == w.runs[i].id
             w1 == told(report(w, 1, 10), id, <<stageReport(10)>>)
         IN  IF w.runs[i].level = "finetuning"
             THEN [told(report(w1, 1, 15), id, <<stageReport(15)>>)
                      EXCEPT !.runs[i].stage = "fetch"]
             ELSE trainerPrepare(w1, i, w.runs[i].ds)

\* what fetch("/existing_game_play.csv") may deliver: a failure, or a text whose
\* data lines are parsed like an upload's (the first 500 at most)
Supplementary ==
    { [ok |-> FALSE, lines |-> <<>>],
      [ok |-> TRUE, lines |-> <<Line(1), ShortLine, Line(0)>>],
      [ok |-> TRUE, lines |-> Lines(1, 0)] }
\* a text with one data line more than are read
LongSupplementary ==
    [ok |-> TRUE, lines |-> Lines(maxSupplementary, 0) \o Lines(1, 1)]

\* a fetch whose failure ends the run (C32_SupplementaryRows must tell)
trainerFetchedFatal(w, i, got) ==
    IF got.ok
    THEN trainerPrepare(w, i, w.runs[i].ds \o
                              parseLines(SubSeq(got.lines, 1,
                                                Min(maxSupplementary, Len(got.lines)))))
    ELSE trainFailed(w, i)

\* the continuation of the fetch: the rows of the first 500 data lines are
\* appended to the user's rows; a failed fetch leaves the user's rows alone
trainerFetched(w, i, got) ==
    LET additionalData == IF got.ok
                          THEN parseLines(SubSeq(got.lines, 1,
                                                 Min(maxSupplementary, Len(got.lines))))
                          ELSE <<>>
    IN  trainerPrepare(w, i, w.runs[i].ds \o additionalData)

\* a trainer that returns the statistics of its features (C27_NoFeatureStats
\* must tell)
trainerFittedStats(w, i) ==
    logged([told(report(w, epochs + 2, 100), w.runs[i].id,
                 epochReports \o <<stageReport(90), stageReport(100)>>)
                EXCEPT !.runs = Without(@, i),
                       !.model = w.runs[i].id,
                       !.featureStats = <<[means |-> <<500, 0, 500, 500, 500>>,
                                           stds |-> <<100, 100, 100, 100, 100>>]>>],
           w.runs[i].id, "ok", w.runs[i].stale)
\* the continuation of `await model.fit(...)` and of the await in
\* GameEngine.trainModel: a report per epoch (150), progress 90 and 100, and the
\* result is installed: this.model = result.model, this.featureStats = null
trainerFitted(w, i) ==
    LET r == w.runs[i]
        w1 == told(report(w, epochs + 2, 100), r.id,
                   epochReports \o <<stageReport(90), stageReport(100)>>)
    IN  logged([w1 EXCEPT !.runs = Without(@, i),
                          !.model = r.id,
                          !.featureStats = <<>>],
               r.id, "ok", r.stale)

\* ------------------------------------------------- balance, shuffle, split
\* finalDataset.filter((d) => d.pressed === pressed), as positions in ds
classOf(ds, pressed) ==
    SelectSeq([i \in DOMAIN ds |-> i], LAMBDA i : ds[i].pressed = pressed)

\* a sample of all of class 0 (C14_Balanced must tell)
sampleSizeAll(c0, c1, err) == c0
\* Math.floor(class1.length * Math.min(2, class0.length / class1.length)) for
\* class1.length > 0.  The quotient is rounded to a double, so its product with
\* class1.length may fall just below class0.length (49 * (1 / 49) is
\* 0.9999999999999999) and the floor is one less: err is that loss, 0 or 1.
sampleSize(c0, c1, err) ==
    IF c0 >= 2 * c1 THEN 2 * c1
    ELSE IF c0 % c1 = 0 THEN c0
    ELSE c0 - err

\* the loop that samples class 0: positions 0, step, 2 * step, ... of class0
\* while fewer than size were taken; size = 0 makes step NaN or Infinity and the
\* loop takes nothing
sampledClass0(class0, size) ==
    IF size = 0 THEN <<>>
    ELSE LET step == Len(class0) \div size
             taken == Min(size, (Len(class0) + step - 1) \div step)
         IN  [k \in 1..taken |-> class0[(k - 1) * step + 1]]

\* balancedFeatures / balancedLabels: the sample of class 0, then class 1
balancedRows(ds, err) ==
    LET class0 == classOf(ds, 0)
        class1 == classOf(ds, 1)
    IN  sampledClass0(class0, sampleSize(Len(class0), Len(class1), err)) \o class1

\* the orders indices.sort(() => Math.random() - 0.5) may leave n indices in
Reorderings ==
    [n \in 0..MaxRows |-> {p \in [1..n -> 1..n] : \A i, j \in 1..n : p[i] = p[j] => i = j}]
Perms(n) == Reorderings[n]

\* a train set of the nearest whole number to 0.8 * n (C15_Split must tell)
trainSizeNearest(n) == (8 * n + 5) \div 10
\* Math.floor(0.8 * balancedFeatures.length)
trainSize(n) == (8 * n) \div 10

\* MLTrainer.trainModel from the class balance to the train-test split, for the
\* rows ds; indices is the outcome of the sort
prepare(ds, err, indices) ==
    LET balanced == balancedRows(ds, err)
        shuffled == [i \in DOMAIN balanced |-> balanced[indices[i]]]
        n == Len(shuffled)
    IN  [finalDataset |-> ds, balanced |-> balanced, shuffled |-> shuffled,
         train |-> SubSeq(shuffled, 1, trainSize(n)),
         test |-> SubSeq(shuffled, trainSize(n) + 1, n)]

\* the same block of MLTrainer.trainModel run on the engine's dataset; without a
\* pressed = 1 row it throws before any set is built
prepareTraining(w, err, indices) ==
    IF classOf(w.dataset, 1) = <<>> THEN [w EXCEPT !.prepared = <<>>]
    ELSE [w EXCEPT !.prepared = <<prepare(w.dataset, err, indices)>>]

\* ------------------------------------------------------------------ actions
Bounded(w) ==
    /\ w.bufAge <= MaxAge /\ w.nRecorded <= MaxRecorded
    /\ w.roundFrames <= MaxFrames /\ w.nPreds <= MaxPreds
    /\ w.restartTimers <= MaxTimers /\ w.pendingPreds <= MaxPending
    /\ w.nRuns <= MaxRuns /\ w.nUploads <= MaxUploads
    /\ (IF w.heldJumps = <<>> THEN TRUE ELSE w.heldJumps[1] <= MaxHeldJumps)

Do(w) == Bounded(w) /\ Set(w)

\* requestAnimationFrame callback (draw() changes no state)
Update == \E rnd \in RandomGapCenters : Do(update(World, rnd))

RecordingTick == Do(recordingTick(World))

KeyDown == \E rnd \in RandomGapCenters : Do(keydown(World, rnd))

KeyUp == Do(keyup(World))

Click == \E rnd \in RandomGapCenters : Do(click(World, rnd))

\* the overlay's Start Game / Play Again button, shown in menu and dead
PlayClick ==
    /\ state \in {"menu", "dead"}
    /\ \E rnd \in RandomGapCenters : Do(startGame(World, rnd))

\* more than gameOverDelay has passed since gameOverTime
GameOverDelayElapses == ~delayOver /\ Do([World EXCEPT !.delayOver = TRUE])

\* the callback of endGame's setTimeout(() => this.startGame(), 1000)
RestartTimerFires ==
    /\ restartTimers > 0
    /\ \E rnd \in RandomGapCenters :
          Do(startGame([World EXCEPT !.restartTimers = @ - 1], rnd))

PredictionResolved ==
    /\ pendingPreds > 0
    /\ \E pred \in PredOutputs : Do(predictionResolved(World, pred))

StartRecording == Do(startRecording(World))
PauseRecording == Do(pauseRecording(World))
ResumeRecording == Do(resumeRecording(World))
SetLevel == \E level \in Levels : Do(setLevel(World, level))
ClearDataset == Do(clearDataset(World))
\* the user picks a file written by hand, or the file downloaded last
UploadCSV ==
    \E file \in SmallFiles \cup {downloaded[i] : i \in DOMAIN downloaded} :
        Do(uploadCSV(World, file))
DownloadCSV == Do(downloadCSV(World))
StartAI == \E rnd \in RandomGapCenters : Do(startAI(World, rnd))
StopAI == Do(stopAI(World))
Restart == Do(restart(World))
Pause == Do(pause(World))
Resume == Do(resume(World))
\* the trainer is run on the engine's dataset, once in a behaviour
PrepareTraining ==
    /\ prepared = <<>>
    /\ \E err \in {0, 1} : \E indices \in Perms(Len(balancedRows(dataset, err))) :
          Do(prepareTraining(World, err, indices))
TrainModel == Do(trainModel(World))
TrainerImported == \E i \in DOMAIN runs, loaded \in BOOLEAN :
                      runs[i].stage = "import" /\ Do(trainerImported(World, i, loaded))
TrainerFetched == \E i \in DOMAIN runs, got \in Supplementary :
                      runs[i].stage = "fetch" /\ Do(trainerFetched(World, i, got))
TrainerFetchedLong == \E i \in DOMAIN runs :
                      runs[i].stage = "fetch" /\ Do(trainerFetched(World, i, LongSupplementary))
TrainerFitted == \E i \in DOMAIN runs :
                      runs[i].stage = "fit" /\ Do(trainerFitted(World, i))

\* ------------------------------------------------------------ specifications
\* a session begins in state w: what is counted per session is counted from here
Session(w) == [w EXCEPT !.roundFrames = 0, !.nUploads = 0, !.nPreds = 0,
                        !.nRecorded = 0, !.lastAlert = "", !.reported = <<>>,
                        !.highScoreReports = <<>>,
                        !.progress = [k \in DOMAIN @ |-> <<>>]]

\* update() called n times in a row (it changes nothing once the round is over)
RECURSIVE Frames(_, _, _)
Frames(w, n, rnd) ==
    IF n = 0 \/ w.state # "playing" THEN w ELSE Frames(update(w, rnd), n - 1, rnd)

\* Human play and recording at the underfitting level.  The session starts with
\* the level chosen and a file imported that leaves the dataset one row below the
\* level's cap, or at it; the player jumps by clicking the canvas.
InitRec ==
    \E n \in {maxDataPoints - 1, maxDataPoints} :
        Start(Session(uploadCSV(setLevel(constructed, "underfitting"), File(n, 0))))

NextRec ==
    \/ Update \/ RecordingTick \/ Click
    \/ StartRecording \/ PauseRecording \/ ResumeRecording
    \/ Pause \/ Resume

SpecRec == InitRec /\ [][NextRec]_vars

\* Training runs, changes of the level and clearing of the dataset.  The session
\* starts with a file imported into a newly constructed engine.
InitTrain == \E file \in UploadFiles : Start(Session(uploadCSV(constructed, file)))

NextTrain ==
    \/ ClearDataset \/ SetLevel
    \/ TrainModel \/ TrainerImported \/ TrainerFetched \/ TrainerFitted

SpecTrain == InitTrain /\ [][NextTrain]_vars

\* The state after a model was trained at the underfitting level on 49 imported
\* rows without a jump and one with a jump, the dataset was cleared and 49 rows
\* were imported again.
trained ==
    LET w1 == uploadCSV(setLevel(constructed, "underfitting"), File(maxDataPoints - 1, 0))
        w2 == trainModel(uploadCSV(w1, File(0, 1)))
        w3 == clearDataset(trainerFitted(trainerImported(w2, 1, TRUE), 1))
    IN  uploadCSV(w3, File(maxDataPoints - 1, 0))

\* The global pause with the AI at play.  The session starts in an AI round,
\* recording switched on, FallFrames frames after startAI() with no jump so far:
\* the bird is about to reach the floor.
InitPause ==
    \E rnd \in RandomGapCenters :
        Start(Session(Frames(startAI(startRecording(trained), rnd), FallFrames, rnd)))

NextPause ==
    \/ Update \/ RecordingTick \/ Click \/ PlayClick
    \/ GameOverDelayElapses \/ RestartTimerFires \/ PredictionResolved
    \/ StopAI \/ Pause \/ Resume

SpecPause == InitPause /\ [][NextPause]_vars

\* n recording ticks in a row, each prediction evaluated before the next tick
\* with an output below both thresholds
RECURSIVE Declined(_, _)
Declined(w, n) ==
    IF n = 0 \/ w.state # "playing" THEN w
    ELSE Declined(predictionResolved(recordingTick(w),
                                     CHOOSE p \in PredOutputs : p < baseThreshold),
                  n - 1)

\* Switching the AI on and off.  The session starts with no model, or with the
\* trained model in an AI round whose first predictions (none, one less than the
\* recency window, or as many) came out below the thresholds.
InitAI ==
    \/ Start(Session(constructed))
    \/ \E rnd \in RandomGapCenters, n \in {0, recencyWindow - 1, recencyWindow} :
           Start(Session(Declined(startAI(trained, rnd), n)))

NextAI ==
    \/ StartAI \/ StopAI \/ Click \/ Update \/ RecordingTick
    \/ PredictionResolved \/ GameOverDelayElapses

SpecAI == InitAI /\ [][NextAI]_vars

\* The state after a human round in which two rows were recorded: three frames
\* of hovering, recording switched on, the first jump, and three recording
\* ticks with a frame and a second jump in between.
played ==
    LET rnd == CHOOSE r \in RandomGapCenters : TRUE
        w1 == startRecording(Frames(startGame(constructed, rnd), 3, rnd))
        w2 == recordingTick(click(w1, rnd))
        w3 == recordingTick(click(update(w2, rnd), rnd))
    IN  recordingTick(update(w3, rnd))

\* Export and import of the dataset.  The session starts with an empty dataset,
\* with the rows recorded in a round, or with a file written by hand imported.
InitCsv ==
    \/ \E w \in {constructed, played} : Start(Session(w))
    \/ \E file \in SmallFiles : Start(Session(uploadCSV(constructed, file)))

NextCsv == DownloadCSV \/ UploadCSV \/ ClearDataset

SpecCsv == InitCsv /\ [][NextCsv]_vars

\* The trainer's balance, shuffle and split as a function of the dataset.  The
\* session starts with an imported file of up to MaxRows lines (fewer rows than
\* the trainer accepts, so that every order of the shuffle can be taken).
InitBalance ==
    \E n \in 0..MaxRows : \E pressed \in [1..n -> {0, 1}] :
        Start(Session(uploadCSV(constructed,
                                [header |-> HeaderLine,
                                 lines |-> [i \in 1..n |-> Line(pressed[i])]])))

NextBalance == PrepareTraining \/ ClearDataset

SpecBalance == InitBalance /\ [][NextBalance]_vars

\* n frames of a human round; before a frame the player clicks when the bird is
\* below the height aim
\* (the first half of the frames, then the others)
RECURSIVE Fly(_, _, _, _)
Fly(w, n, rnd, aim) ==
    IF n = 0 \/ w.state # "playing" THEN w
    ELSE IF n = 1 THEN update(IF w.birdY > aim THEN click(w, rnd) ELSE w, rnd)
    ELSE Fly(Fly(w, n \div 2, rnd, aim), n - n \div 2, rnd, aim)

\* the frames of a round after which the next frame creates the second obstacle
SpawnFrames == pipeInterval \div pipeSpeed - 1

\* the frames of a started round after which the first obstacle is two frames
\* from reaching the bird, from having passed it, and from being dropped, and
\* those after which the second obstacle is created
FlightFrames ==
    { (canvasWidth - birdX - birdRadius) \div pipeSpeed - 1,
      (canvasWidth + pipeWidth - birdX) \div pipeSpeed - 1,
      (canvasWidth + pipeWidth) \div pipeSpeed - 1,
      SpawnFrames }

\* A human round in flight.  The session starts in a round begun with two clicks
\* (start, first jump) and flown for a number of frames, the player holding the
\* bird at the height of the gaps or, to collide, at mid-height.
InitFlight ==
    \E rnd \in RandomGapCenters, n \in FlightFrames :
      \E aim \in {rnd, canvasHeight \div 2} :
        Start(Session(Fly(click(click(constructed, rnd), rnd), n, rnd, aim)))

NextFlight == Update \/ Click \/ KeyDown \/ KeyUp \/ GameOverDelayElapses

SpecFlight == InitFlight /\ [][NextFlight]_vars

\* A level change during a recording.  The session starts in the human round of
\* `played`: the round is in play, recording is on and a snapshot is buffered.
InitLevel == Start(Session(played))

NextLevel ==
    \/ SetLevel \/ RecordingTick \/ Click
    \/ StartRecording \/ ResumeRecording

SpecLevel == InitLevel /\ [][NextLevel]_vars

\* ------------------------------------------------------------------- claims
\* the six features of a row
Features(row) == <<row.y, row.vel, row.dist, row.mid1, row.mid2>>

\* a recording tick that runs its body: the engine is not paused, a round is played
LiveTick == RecordingTick /\ ~isPaused /\ state = "playing"

\* C1: every row appended by the recording tick holds the snapshot buffered at
\* the immediately preceding live tick (its lag is one tick), and its pressed is 1
\* exactly when a jump was scheduled between the snapshot and the append.
C1_OneTickLag ==
    \A i \in DOMAIN dataset :
        dataset[i].lag # 0 =>
            /\ dataset[i].lag = 1
            /\ (dataset[i].pressed = 1) <=> dataset[i].jumped

\* C2: at the underfitting level a recording tick appends a row only while the
\* dataset holds fewer than 50 rows: a tick at 50 rows or more leaves the dataset
\* alone, and a row is never appended to 50 rows or more.
C2_UnderfittingCap ==
    [][currentLevel = "underfitting" =>
          /\ (RecordingTick /\ Len(dataset) >= 50) => dataset' = dataset
          /\ nRecorded' > nRecorded => (Len(dataset) < 50 /\ Len(dataset') <= 50)]_vars

\* C2, its case: the dataset holds 50 rows, the 50th appended by the recording
\* tick, and a later live tick has run
C2_Witness ==
    /\ currentLevel = "underfitting" /\ Len(dataset) = 50
    /\ dataset[50].lag >= 1
    /\ bufAge >= 1

\* C3 as stated: at the end of the tick that appends the 50th row at the
\* underfitting level, isRecording is false.
C3_PausedAtFiftiethRow ==
    [][(currentLevel = "underfitting" /\ nRecorded' = nRecorded + 1
        /\ Len(dataset') = 50) => ~isRecording']_vars

\* C3, amended: at the underfitting level the recording tick switches recording
\* off at the first live tick that finds recording on, the round started and 50
\* rows or more in the dataset; that tick appends nothing and keeps the buffered
\* snapshot.  A live tick that finds fewer than 50 rows leaves recording on.
C3_PausedAtNextTick ==
    [][(LiveTick /\ currentLevel = "underfitting" /\ isRecording /\ gameStarted) =>
          IF Len(dataset) >= 50
          THEN ~isRecording' /\ dataset' = dataset /\ dataBuffer' = dataBuffer
          ELSE isRecording']_vars

\* C3, its case: the 50th row was appended by the recording tick, recording is
\* off, the snapshot taken with the 50th row is still buffered and a live tick
\* has run since
C3_Witness ==
    /\ currentLevel = "underfitting" /\ Len(dataset) = 50
    /\ dataset[50].lag >= 1
    /\ ~isRecording /\ dataBuffer # <<>> /\ bufAge >= 1 /\ state = "playing"

\* recording is active: a round is played and has started, recording is on
ActiveRecording == isRecording /\ gameStarted /\ state = "playing"

\* C4: with recording active and a snapshot buffered, nothing that happens while
\* the engine is paused changes the dataset or the buffered snapshot, and the
\* first live recording tick after the pause appends that snapshot, once and
\* with its features as buffered.
C4_PauseKeepsBufferedRow ==
    [][(ActiveRecording /\ dataBuffer # <<>>) =>
          /\ isPaused => (dataset' = dataset /\ dataBuffer' = dataBuffer)
          /\ (LiveTick /\ ~reachedMaxDataPoints(World)) =>
                /\ Len(dataset') = Len(dataset) + 1
                /\ SubSeq(dataset', 1, Len(dataset)) = dataset
                /\ Features(dataset'[Len(dataset')]) = Features(dataBuffer[1])]_vars

\* the events C5 names, as far as the engine handles them
PausedEvent ==
    \/ Update \/ RecordingTick \/ KeyDown \/ KeyUp \/ Click
    \/ PredictionResolved \/ RestartTimerFires

\* C5: while isPaused is true, a frame update, a recording tick, a key or click
\* input, the result of an earlier AI prediction or a pending auto-restart timer
\* leaves the bird's position and velocity, the obstacles, the score, the round
\* state, the dataset and the buffered snapshot unchanged.
C5_PausedEventsChangeNothing ==
    [][(isPaused /\ PausedEvent) =>
          UNCHANGED <<birdY, birdVel, pipes, score, state, gameStarted, nextPipeDist,
                      dataset, dataBuffer>>]_vars

\* C6: the result of a training run that a restart() or a level switch overtook
\* is not applied: the model is never the one such a run produced.
C6_StaleRunNotApplied ==
    \A i \in DOMAIN trainLog :
        (trainLog[i].stale /\ trainLog[i].outcome = "ok") => model # trainLog[i].id

\* C7: at most one training run is in flight at any time.
C7_OneRunInFlight == Len(runs) <= 1

\* C8: after setLevel(level) returns, model is null.
C8_SetLevelClearsModel == [][SetLevel => model' = NoModel]_vars

\* the trainModel call that ended last in this step, if one did
Ended(outcome) ==
    /\ Len(trainLog') = Len(trainLog) + 1
    /\ trainLog'[Len(trainLog')].outcome = outcome

\* C9: a training run that fails leaves model and featureStats as they were and
\* ends with the error handed to the caller; a run whose training data holds no
\* row with pressed = 1 never gets as far as fitting a model; a run that leaves
\* the runs in flight ends with an error or installs its model; and the model
\* becomes a trained model only at the end of a run that succeeded, and then it
\* is that run's model.
C9_FailedRunKeepsModel ==
    [][/\ Ended("error") => UNCHANGED <<model, featureStats>>
       /\ \A i \in DOMAIN runs' :
             runs'[i].stage = "fit" =>
                 \E k \in DOMAIN runs'[i].ds : runs'[i].ds[k].pressed = 1
       /\ Len(runs') < Len(runs) => (Ended("error") \/ Ended("ok"))
       /\ (model' # model /\ model' # NoModel) =>
             (Ended("ok") /\ model' = trainLog'[Len(trainLog')].id)]_vars

\* C9, its case: a run was started on 50 rows or more none of which has
\* pressed = 1, and failed after its report of 30 percent, where the classes are
\* counted
C9_Witness ==
    /\ Len(dataset) >= trainerFloor
    /\ \A k \in DOMAIN dataset : dataset[k].pressed = 0
    /\ trainLog # <<>> /\ trainLog[Len(trainLog)].outcome = "error"
    /\ lastProgress = 30 /\ runs = <<>> /\ model = NoModel

\* the minimum C10 states for the current level
StatedMinimum ==
    IF currentLevel = "finetuning" THEN 400
    ELSE IF currentLevel = "underfitting" THEN 50
    ELSE 200

\* C10: trainModel called with fewer rows than the level's minimum (400, 50, 200)
\* starts no run, reports no progress and leaves model, featureStats and dataset
\* unchanged.
C10_BelowMinimumRejected ==
    [][(TrainModel /\ Len(dataset) < StatedMinimum) =>
          UNCHANGED <<runs, progressCount, lastProgress, model, featureStats,
                      dataset>>]_vars

\* C10, its case: a call was turned down with rows in the dataset, 50 or more of
\* them at a level that asks for more
C10_Witness ==
    /\ trainLog # <<>> /\ trainLog[Len(trainLog)].outcome = "rejected"
    /\ Len(dataset) >= trainerFloor /\ Len(dataset) < StatedMinimum
    /\ runs = <<>> /\ progressCount = 0

\* C11: startAI() called while there is no model changes no state of the game:
\* isAI stays false, and the round state, the bird, the obstacles and the score
\* are what they were.
C11_StartAIWithoutModel ==
    [][(StartAI /\ model = NoModel) =>
          /\ ~isAI' /\ isAI' = isAI
          /\ UNCHANGED <<state, birdVars, pipes, score, gameStarted, nextPipeDist>>]_vars

\* startAI() was refused during a round: the round goes on under the player
C11_Witness ==
    /\ lastAlert = "Train the model first!" /\ model = NoModel
    /\ state = "playing" /\ roundFrames > 0 /\ ~isAI

\* the rows of the lines of ls that have six fields, in the order of ls
RECURSIVE SixFieldRows(_)
SixFieldRows(ls) ==
    IF ls = <<>> THEN <<>>
    ELSE (IF Len(Head(ls)) = 6 THEN <<UploadRow(Head(ls))>> ELSE <<>>)
         \o SixFieldRows(Tail(ls))

\* C12: uploadCSV either rejects and leaves the dataset as it was (the first line
\* is not the header, or no data line has six fields), or it appends the rows of
\* exactly the data lines that have six fields, in file order, after the rows
\* already present; a line with another number of fields is skipped and does not
\* fail the import.
C12_UploadAppendsOrRejects ==
    [][\A file \in SmallFiles \cup {downloaded[i] : i \in DOMAIN downloaded} :
          Set(uploadCSV(World, file)) =>
              IF file.header # HeaderLine
              THEN dataset' = dataset /\ lastAlert' = "Invalid CSV format!"
              ELSE IF \A i \in DOMAIN file.lines : Len(file.lines[i]) # 6
              THEN dataset' = dataset /\ lastAlert' = "No valid data found in CSV!"
              ELSE /\ dataset' = dataset \o SixFieldRows(file.lines)
                   /\ lastAlert' = "Successfully loaded"]_vars

\* a file of four lines, two of them with six fields, was imported after the
\* rows recorded in a round
C12_Witness ==
    /\ nUploads > 0 /\ lastAlert = "Successfully loaded"
    /\ Len(dataset) = Len(played.dataset) + 2
    /\ SubSeq(dataset, 1, Len(played.dataset)) = played.dataset
    /\ dataset[Len(dataset)] = UploadRow(Line(0))

\* r is v rounded to two decimals: a whole number of hundredths nearest to v
Rounded(v, r) == r % 10 = 0 /\ Abs(r - v) <= 5

\* C13: the text downloadCSV writes for a dataset that is not empty, imported by
\* uploadCSV into an engine whose dataset is empty, gives as many rows in the
\* same order, each with the pressed value of the original and with every
\* numeric field equal to the original's rounded to two decimals.
C13_RoundTrip ==
    dataset # <<>> =>
        LET text == downloadCSV(World).downloaded[1]
            back == uploadCSV(clearDataset(World), text).dataset
        IN  /\ Len(back) = Len(dataset)
            /\ \A i \in DOMAIN dataset :
                  /\ back[i].pressed = dataset[i].pressed
                  /\ Rounded(dataset[i].y, back[i].y)
                  /\ Rounded(dataset[i].vel, back[i].vel)
                  /\ Rounded(dataset[i].dist, back[i].dist)
                  /\ Rounded(dataset[i].mid1, back[i].mid1)
                  /\ Rounded(dataset[i].mid2, back[i].mid2)

\* the rows recorded in a round were downloaded, the dataset was cleared and the
\* file imported: the first row's y, 300.299, came back as 300.30
C13_Witness ==
    /\ downloaded # <<>> /\ nUploads > 0 /\ lastAlert = "Successfully loaded"
    /\ downloaded[1].lines = [i \in DOMAIN played.dataset |-> csvLine(played.dataset[i])]
    /\ Len(dataset) = Len(played.dataset)
    /\ played.dataset[1].y = 300299 /\ dataset[1].y = 300300
    /\ dataset[2].pressed = played.dataset[2].pressed

\* how often x occurs in the sequence s
Occurrences(s, x) == Cardinality({i \in DOMAIN s : s[i] = x})

\* C14: for a training dataset with at least one pressed = 1 row, the balanced
\* set contains every pressed = 1 row exactly once, and at most twice as many
\* pressed = 0 rows as there are pressed = 1 rows.
C14_Balanced ==
    prepared # <<>> =>
        LET balanced == prepared[1].balanced
            rows == prepared[1].finalDataset
            ones == {i \in DOMAIN rows : rows[i].pressed = 1}
        IN  /\ ones # {}
            /\ \A i \in ones : Occurrences(balanced, i) = 1
            /\ \A k \in DOMAIN balanced : balanced[k] \in ones \/ rows[balanced[k]].pressed = 0
            /\ Cardinality({k \in DOMAIN balanced : rows[balanced[k]].pressed = 0})
                  <= 2 * Cardinality(ones)

\* one pressed = 1 row and four pressed = 0 rows were balanced: two of the four
\* were kept
C14_Witness ==
    /\ prepared # <<>> /\ Len(prepared[1].finalDataset) = 5
    /\ classOf(prepared[1].finalDataset, 1) = <<3>>
    /\ prepared[1].balanced = <<1, 4, 3>>

\* C15: the train set has floor(0.8 n) rows and the test set the other
\* n - floor(0.8 n) rows of the balanced set of size n; the shuffle is a
\* permutation, so the two sets are disjoint and together hold every balanced
\* row exactly once.
C15_Split ==
    prepared # <<>> =>
        LET balanced == prepared[1].balanced
            train == prepared[1].train
            test == prepared[1].test
            n == Len(balanced)
        IN  /\ 5 * Len(train) <= 4 * n /\ 4 * n < 5 * (Len(train) + 1)
            /\ Len(test) = n - Len(train)
            /\ \A k \in DOMAIN balanced :
                  Occurrences(train, balanced[k]) + Occurrences(test, balanced[k]) = 1
            /\ \A k \in DOMAIN train : Occurrences(balanced, train[k]) = 1
            /\ \A k \in DOMAIN test : Occurrences(balanced, test[k]) = 1

\* five balanced rows were shuffled into another order and split four to one
C15_Witness ==
    /\ prepared # <<>> /\ Len(prepared[1].balanced) = 5
    /\ prepared[1].shuffled # prepared[1].balanced
    /\ Len(prepared[1].train) = 4 /\ Len(prepared[1].test) = 1
    /\ prepared[1].test[1] = prepared[1].balanced[1]

\* C16: when a prediction is evaluated, the bird jumps iff the model's output
\* exceeds 0.7 with framesSinceLastJump < 10, and iff it exceeds 0.5 otherwise;
\* an output of 0.6 never makes it jump below 10 and always does from 10 on.
C16_AdaptiveThreshold ==
    lastDecision # <<>> =>
        LET d == lastDecision[1]
        IN  /\ d.jumped <=> d.output > (IF d.since < 10 THEN 7 ELSE 5)
            /\ d.output = 6 => (d.jumped <=> d.since >= 10)
            /\ d.jumped => framesSinceLastJump = 0
            /\ ~d.jumped => framesSinceLastJump = d.since + 1

\* ten predictions in a row were declined, then an output of 0.6 made the bird jump
C16_Witness ==
    /\ lastDecision = <<[output |-> 6, since |-> 10, jumped |-> TRUE]>>
    /\ birdVel = jumpStrength /\ framesSinceLastJump = 0 /\ isAI

\* C17: the score is incremented exactly once for each obstacle whose right edge
\* has crossed the bird's x and never otherwise: in every state the score is the
\* number of obstacles of the round that were marked passed, and while the round
\* is played an obstacle is marked passed iff its right edge is left of the
\* bird's x.
C17_ScoreCountsPassed ==
    /\ score = passedOffScreen + Cardinality({i \in DOMAIN pipes : pipes[i].passed})
    /\ state = "playing" =>
          \A i \in DOMAIN pipes : pipes[i].passed <=> pipes[i].x + pipeWidth < birdX

\* the first obstacle was passed, counted once and dropped; the second is ahead
C17_Witness ==
    /\ state = "playing" /\ score = 1 /\ passedOffScreen = 1
    /\ Len(pipes) = 1 /\ ~pipes[1].passed /\ roundFrames > 0

\* the obstacle at x overlaps the bird's circle horizontally
Overlaps(x) == birdX + birdRadius > x /\ birdX - birdRadius < x + pipeWidth

\* the bird at height y is fully inside the gap of the pipe p
InGap(y, p) == y - birdRadius >= PipeTop(p) /\ y + birdRadius <= PipeBottom(p)

\* the bird at height y is inside the playfield
InField(y) == y - birdRadius >= 0 /\ y + birdRadius <= canvasHeight

\* C18: on an update tick of a started round, if after moving some obstacle
\* overlaps the bird horizontally while the bird is not fully inside its gap, the
\* round is dead at the end of the tick; if the bird is inside the gap of every
\* overlapping obstacle and inside the playfield, the tick does not end the round.
C18_Collision ==
    [][(Update /\ ~isPaused /\ state = "playing" /\ (gameStarted \/ isAI)) =>
          LET hit == \E i \in DOMAIN pipes :
                        /\ Overlaps(pipes[i].x - pipeSpeed)
                        /\ ~InGap(birdY', pipes[i])
          IN  /\ hit => state' = "dead"
              /\ (~hit /\ InField(birdY')) => state' = "playing"]_vars

\* a frame of this session ended the round on an obstacle, inside the playfield
C18_Witness ==
    /\ state = "dead" /\ roundFrames > 0 /\ InField(birdY)
    /\ \E i \in DOMAIN pipes : Overlaps(pipes[i].x) /\ ~InGap(birdY, pipes[i])

\* C19: after setLevel isRecording is false whatever it was before, and the
\* recording tick appends no row until startRecording or resumeRecording is
\* called again: a row is appended only by a step taken with isRecording true,
\* and isRecording becomes true by those two calls only.
C19_LevelChangeStopsRecording ==
    [][/\ SetLevel => ~isRecording'
       /\ (nRecorded' # nRecorded \/ (RecordingTick /\ dataset' # dataset)) => isRecording
       /\ (~isRecording /\ isRecording') => (StartRecording \/ ResumeRecording)]_vars

\* the level was changed while recording, and the live ticks of the session ran
\* after the change: the buffered snapshot is still waiting, no row was appended
C19_Witness ==
    /\ currentLevel = "overfitting" /\ ~isRecording /\ state = "playing" /\ gameStarted
    /\ dataBuffer # <<>> /\ bufAge = MaxAge /\ nRecorded = 0
    /\ dataset = played.dataset

\* C20: the recording tick neither appends a row nor replaces the buffered
\* snapshot when the engine is paused, when the round state is not playing, when
\* recording is off, or when the round has not started yet (no first jump).
C20_GatedTick ==
    [][(RecordingTick /\ (isPaused \/ state # "playing" \/ ~isRecording \/ ~gameStarted))
          => UNCHANGED <<dataset, dataBuffer, nRecorded>>]_vars

\* two live ticks in a row ran in a started round with recording switched off
\* below the cap: the snapshot buffered before is still there
C20_Witness ==
    /\ ~isRecording /\ ~isPaused /\ state = "playing" /\ gameStarted
    /\ dataBuffer # <<>> /\ bufAge = MaxAge /\ Len(dataset) < maxDataPoints

\* C21: a round that has ended is restarted without a start input only in AI
\* mode: with isAI false the round state leaves dead or menu for playing only by
\* a start command (key, click, Start Game / Play Again, startAI).
C21_OnlyAIRestartsItself ==
    [][(~isAI /\ state \in {"dead", "menu"} /\ state' = "playing") =>
          (KeyDown \/ Click \/ PlayClick \/ StartAI)]_vars

\* C22: the human and the AI are exclusive drivers of the jump: while isAI is
\* true no key or click changes the bird's velocity or sets jumpScheduled, and
\* while isAI is false no prediction changes the bird's velocity, whenever it was
\* requested.
C22_ExclusiveDrivers ==
    [][/\ (isAI /\ (KeyDown \/ KeyUp \/ Click)) => UNCHANGED <<birdVel, jumpScheduled>>
       /\ (~isAI /\ PredictionResolved) => birdVel' = birdVel]_vars

\* a ratio n / d of two lengths, in thousandths
Ratio(n, d) == (n * 1000) \div d

\* the vector the inference loop reads off the engine: without a next (next-next)
\* obstacle the distance is 1 and the gap centers are the bird's own height
getRawFeatures(w) ==
    LET next == getNextPipe(w.pipes, 0)
        nextNext == getNextPipe(w.pipes, 1)
    IN  << Ratio(w.birdY, canvasHeight),
           w.birdVel \div 10,
           IF next # <<>> THEN Ratio(next[1].x - birdX, canvasWidth) ELSE Ratio(1, 1),
           IF next # <<>> THEN Ratio(next[1].gapCenter, canvasHeight)
                          ELSE Ratio(w.birdY, canvasHeight),
           IF nextNext # <<>> THEN Ratio(nextNext[1].gapCenter, canvasHeight)
                              ELSE Ratio(w.birdY, canvasHeight) >>

\* the Number that is not a number, as a value no length or ratio takes
NaN == -2000000000

\* Math.max(lo, Math.min(hi, v)): a value held between lo and hi; NaN stays NaN
Clamp(lo, v, hi) ==
    IF v = NaN THEN NaN ELSE IF v < lo THEN lo ELSE IF v > hi THEN hi ELSE v

\* (val - mean) / (std || 1), in thousandths: a standard deviation of 0 or NaN
\* counts as 1; the difference and the quotient of a NaN are NaN
standardized(val, mean, std) ==
    LET d == IF std = 0 \/ std = NaN THEN 1000 ELSE std
    IN  IF val = NaN \/ mean = NaN THEN NaN
        ELSE IF d < 0 THEN Ratio(mean - val, -d)
        ELSE Ratio(val - mean, d)

\* the engine's preprocessing: the input itself without feature statistics,
\* otherwise each feature standardized and clamped to [-3, 3]
preprocessFeatures(w, rawFeatures) ==
    IF w.featureStats = <<>> THEN rawFeatures
    ELSE [i \in 1..5 |->
            Clamp(-3000,
                  standardized(rawFeatures[i], w.featureStats[1].means[i],
                               w.featureStats[1].stds[i]),
                  3000)]

\* the vector the trainer derives from a row of the dataset
trainerFeatures(d) ==
    << Ratio(d.y, canvasHeight), d.vel \div 10, Ratio(d.dist, canvasWidth),
       Ratio(d.mid1, canvasHeight), Ratio(d.mid2, canvasHeight) >>

\* C23: in every live state the vector fed to the model (getRawFeatures, then
\* preprocessFeatures) equals the vector the trainer derives from the row the
\* recorder would buffer in that state, also without a next or next-next obstacle.
C23_SameFeatures ==
    state = "playing" =>
        preprocessFeatures(World, getRawFeatures(World))
            = trainerFeatures(getCurrentData(birdY, birdVel, pipes))

\* the state after a successful training run at a level, the dataset holding one
\* row less than the level asks for
trainedAt(level) ==
    LET w1 == uploadCSV(setLevel(constructed, level), File(minRequired(level) - 1, 0))
        w2 == trainModel(uploadCSV(w1, File(0, 1)))
        w3 == clearDataset(trainerFitted(trainerImported(w2, 1, TRUE), 1))
    IN  uploadCSV(w3, File(minRequired(level) - 1, 0))

\* n frames of an AI round; before a frame a prediction above both thresholds is
\* evaluated when the bird is below the height aim
RECURSIVE FlyAI(_, _, _, _)
FlyAI(w, n, rnd, aim) ==
    IF n = 0 \/ w.state # "playing" THEN w
    ELSE IF n = 1
    THEN update(IF w.birdY > aim
                THEN predictionResolved(makeAIPrediction(w),
                                        CHOOSE p \in PredOutputs : p > raisedThreshold)
                ELSE w, rnd)
    ELSE FlyAI(FlyAI(w, n \div 2, rnd, aim), n - n \div 2, rnd, aim)

\* the levels trained with the recording alone
GapLevels == {"underfitting", "overfitting"}
\* The gap centers of the obstacles.  The session starts with a model trained at
\* the level, in the menu, or in a round of the human or of the AI flown until
\* the second obstacle is about to be created.
InitGap ==
    \E level \in GapLevels, rnd \in RandomGapCenters :
        \/ Start(Session(trainedAt(level)))
        \/ Start(Session(Fly(click(click(trainedAt(level), rnd), rnd),
                             SpawnFrames, rnd, canvasHeight \div 2)))
        \/ Start(Session(FlyAI(startAI(trainedAt(level), rnd),
                               SpawnFrames, rnd, canvasHeight \div 2)))

NextGap == Update \/ Click \/ StartAI \/ StopAI \/ GameOverDelayElapses

SpecGap == InitGap /\ [][NextGap]_vars

\* C24: an obstacle is created with the pinned gap center exactly when the level
\* is overfitting and the human is the actor; every other obstacle, the first of
\* a round included, gets a randomly drawn gap center.
C24_GapCenterPolicy ==
    lastPipe # <<>> =>
        IF lastPipe[1].level = "overfitting" /\ ~lastPipe[1].isAI
        THEN lastPipe[1].gapCenter = fixedGapCenter
        ELSE lastPipe[1].gapCenter \in RandomGapCenters

\* C25: jumping is edge-triggered: between a key-down of the space key and the
\* following key-up the jump impulse of the key is applied at most once, whatever
\* ticks, repeated key-downs, round starts and pauses lie in between; a click
\* during the human's play applies one impulse and sets jumpScheduled.
C25_EdgeTriggered ==
    [][/\ IF heldJumps' = <<>> THEN TRUE ELSE heldJumps'[1] <= 1
       /\ (Click /\ state = "playing" /\ ~isAI /\ ~isPaused) =>
              (birdVel' = jumpStrength /\ jumpScheduled')]_vars

lossyCounts ==
    { <<15, 11>>, <<15, 13>>, <<15, 22>>, <<13, 23>>, <<26, 23>>, <<15, 26>>,
      <<3, 47>>, <<1, 49>> }

\* what Math.floor loses of class1.length * ratio for these counts
productLoss(c0, c1) == IF <<c0, c1>> \in lossyCounts THEN 1 ELSE 0

\* the balance of the trainer on the engine's dataset, the shuffle leaving the
\* balanced rows in their order
prepareSample(w) ==
    LET c0 == Len(classOf(w.dataset, 0))
        c1 == Len(classOf(w.dataset, 1))
        err == productLoss(c0, c1)
    IN  prepareTraining(w, err, [i \in 1..Len(balancedRows(w.dataset, err)) |-> i])

PrepareSample == prepared = <<>> /\ Do(prepareSample(World))

\* The sample of the negative class.  The session starts with an imported file
\* of as many rows as the trainer asks for at least, any number of them jumps.
InitSample ==
    \E c1 \in 0..trainerFloor :
        Start(Session(uploadCSV(constructed, File(trainerFloor - c1, c1))))

NextSample == PrepareSample \/ ClearDataset

SpecSample == InitSample /\ [][NextSample]_vars

\* C28: the balancing step takes exactly min(2 * count(1), count(0)) rows of the
\* negative class, at a fixed stride through the negative rows in their original
\* order, and takes no negative row twice.
C28_NegativeSample ==
    prepared # <<>> =>
        LET rows == prepared[1].finalDataset
            class0 == classOf(rows, 0)
            class1 == classOf(rows, 1)
            taken == SelectSeq(prepared[1].balanced, LAMBDA i : rows[i].pressed = 0)
        IN  /\ Len(taken) = Min(2 * Len(class1), Len(class0))
            /\ \E step \in 1..(Len(class0) + 1) :
                  \A k \in DOMAIN taken : taken[k] = class0[(k - 1) * step + 1]
            /\ \A j, k \in DOMAIN taken : taken[j] = taken[k] => j = k

\* C29: framesSinceLastJump always equals the number of predictions evaluated
\* since the AI's most recent jump, so the raised threshold applies only when the
\* AI jumped within its last 10 predictions.
C29_CountsSinceJump == framesSinceLastJump = sinceJump

\* C30: every change of the round state made by a command or tick is reported by
\* exactly one onGameStateChange call carrying the new state, and no call is made
\* when the round state does not change.
C30_StateChangesReported ==
    [][reported' = IF state' # state THEN <<state'>> ELSE <<>>]_vars

\* C31: within one training run the percentages passed to onProgressUpdate are
\* non-decreasing and lie in 10..100, the per-epoch reports lie in [70, 90), and
\* 100 is reported once, as the last report, and only when the run succeeds.
C31_ProgressReports ==
    \A id \in DOMAIN progress :
        LET rs == progress[id]
            ok == \E k \in DOMAIN trainLog :
                      trainLog[k].id = id /\ trainLog[k].outcome = "ok"
        IN  /\ \A k \in DOMAIN rs :
                  /\ 10000 <= rs[k].percent /\ rs[k].percent <= 100000
                  /\ k > 1 => rs[k - 1].percent <= rs[k].percent
                  /\ rs[k].epoch => (70000 <= rs[k].percent /\ rs[k].percent < 90000)
                  /\ rs[k].percent = 100000 => (k = Len(rs) /\ ok)
            /\ ok => (rs # <<>> /\ rs[Len(rs)].percent = 100000)

\* a run has succeeded: its reports end with the per-epoch reports, 90 and 100
C31_Witness ==
    \E a \in DOMAIN progress :
        /\ Len(progress[a]) > epochs /\ progress[a][Len(progress[a])].percent = 100000
        /\ \E k \in DOMAIN progress[a] : progress[a][k].epoch /\ progress[a][k].percent > 89000
        /\ \E k \in DOMAIN trainLog : trainLog[k].id = a /\ trainLog[k].outcome = "ok"

\* Fetching the supplementary rows.  The session starts like a training session
\* with a file of the fine-tuning minimum imported; the text fetched may be
\* longer than what is read.
InitFetch == Start(Session(uploadCSV(constructed, File(minFinetuning - 1, 1))))

NextFetch ==
    \/ SetLevel \/ TrainModel \/ TrainerImported
    \/ TrainerFetched \/ TrainerFetchedLong \/ TrainerFitted

SpecFetch == InitFetch /\ [][NextFetch]_vars

\* C32: supplementary rows enter the training set only at the fine-tuning level,
\* at most 500 of them, appended after the user's rows; when the fetch fails, or
\* at another level, the run goes on with exactly the user's rows and does not
\* fail for that reason.
C32_SupplementaryRows ==
    [][\A i \in DOMAIN runs :
          /\ runs[i].stage = "fetch" =>
                /\ runs[i].level = "finetuning"
                /\ \A got \in Supplementary \cup {LongSupplementary} :
                      ~got.ok => trainerFetched(World, i, got)
                                     = trainerPrepare(World, i, runs[i].ds)
          /\ runs[i].stage \in {"import", "fetch"} =>
                \A j \in DOMAIN runs' :
                    (runs'[j].id = runs[i].id /\ runs'[j].stage = "fit") =>
                        LET user == runs[i].ds
                            final == runs'[j].ds
                        IN  /\ Len(final) >= Len(user)
                            /\ SubSeq(final, 1, Len(user)) = user
                            /\ Len(final) - Len(user) <= maxSupplementary
                            /\ runs[i].level # "finetuning" => final = user
                            /\ runs[i].stage = "import" => final = user]_vars

\* runs are about to be fitted: one on the user's rows and 500 supplementary rows
\* read from a longer text, one on the user's rows alone after a failed fetch
C32_Witness ==
    \E i, j \in DOMAIN runs :
        /\ runs[i].stage = "fit" /\ runs[i].level = "finetuning"
        /\ Len(runs[i].ds) = minFinetuning + maxSupplementary
        /\ runs[j].stage = "fit" /\ runs[j].level = "finetuning"
        /\ Len(runs[j].ds) = minFinetuning

\* C33: in every reachable state the obstacle list is in spawn order and strictly
\* increasing in x: an update tick keeps the obstacles in their order, drops
\* them from the front and adds the new one at the end, also on the tick of a
\* collision, a spawn or a removal.
C33_SpawnOrder ==
    [][/\ \A k \in DOMAIN pipes : k > 1 => pipes[k - 1].x < pipes[k].x
       /\ \A k \in DOMAIN pipes' : k > 1 => pipes'[k - 1].x < pipes'[k].x
       /\ (Update /\ state = "playing") =>
             \E d \in {0, 1} :
                 /\ d = 1 => (pipes # <<>> /\ pipes[1].x + pipeWidth <= 0)
                 /\ Len(pipes') \in {Len(pipes) - d, Len(pipes) - d + 1}
                 /\ \A k \in 1..(Len(pipes) - d) :
                       /\ pipes'[k].gapCenter = pipes[k + d].gapCenter
                       /\ pipes'[k].x \in {pipes[k + d].x, pipes[k + d].x - pipeSpeed}
                 /\ Len(pipes') = Len(pipes) - d + 1 =>
                       pipes'[Len(pipes')].x = canvasWidth - pipeSpeed]_vars

\* the round has just ended by a collision: the first obstacle was moved, the
\* second was not and is further behind than it was created
C33_Witness ==
    /\ state = "dead" /\ roundFrames > 0 /\ Len(pipes) = 2
    /\ pipes[2].x - pipes[1].x = pipeInterval

\* feature statistics with the same mean and standard deviation for each feature
Stats(mean, std) == [means |-> [i \in 1..5 |-> mean], stds |-> [i \in 1..5 |-> std]]
\* the feature statistics tried: a standard deviation of 0, an ordinary one, one
\* of a thousandth and a negative one around means inside and far outside the
\* range of the features, and statistics whose mean or deviation is NaN
StatsValues ==
    { Stats(m, s) : m \in {-5000, 500, 9000}, s \in {0, 1, 250, -250} }
        \cup { Stats(NaN, 250), Stats(500, NaN) }

\* Preprocessing with feature statistics.  The session starts in a round of the
\* AI with the statistics installed on the engine.
InitStats ==
    \E st \in StatsValues, rnd \in RandomGapCenters :
        Start(Session([startAI(trained, rnd) EXCEPT !.featureStats = <<st>>]))

NextStats == Update \/ RecordingTick \/ PredictionResolved \/ StopAI \/ StartAI

SpecStats == InitStats /\ [][NextStats]_vars

\* the features the model is given in a state
modelInput == preprocessFeatures(World, getRawFeatures(World))

handleToggleAI(w, rnd) ==
    IF w.isAI THEN stopAI(w) ELSE startAI(pauseRecording(w), rnd)

ToggleAI == \E rnd \in RandomGapCenters : Do(handleToggleAI(World, rnd))

\* Recording and the AI side by side.  The session starts in the menu with a
\* model trained at the level; the AI is switched by the button of the panel.
InitDrive == \E level \in GapLevels : Start(Session(trainedAt(level)))

NextDrive ==
    \/ Update \/ RecordingTick \/ Click \/ PredictionResolved
    \/ StartRecording \/ ResumeRecording \/ ToggleAI

SpecDrive == InitDrive /\ [][NextDrive]_vars

\* C35: no row is appended to the dataset while the AI is the active driver: with
\* isAI true a recording tick leaves the dataset unchanged, in whatever order the
\* recording was started or resumed, the AI was started and the human jumped.
C35_NoRowsWhileAI ==
    [][(isAI /\ RecordingTick) => dataset' = dataset]_vars

\* Restarting the engine.  The session starts in a recorded round of the human,
\* a model trained, two frames before the first obstacle is passed.
InitRestart ==
    \E rnd \in RandomGapCenters :
        Start(Session(Fly(click(click(startRecording(trained), rnd), rnd),
                          (canvasWidth + pipeWidth - birdX) \div pipeSpeed - 1,
                          rnd, rnd)))

NextRestart ==
    \/ Update \/ RecordingTick \/ Click
    \/ Pause \/ Resume \/ ToggleAI \/ Restart

SpecRestart == InitRestart /\ [][NextRestart]_vars

\* C36: after restart() the round state is menu, the dataset is empty, model and
\* featureStats are null, isRecording and isAI are false, the score is 0, the
\* buffered snapshot and the scheduled jump are cleared; currentLevel, highScore
\* and isPaused are as before.
C36_RestartEffect ==
    [][Restart =>
          /\ state' = "menu" /\ dataset' = <<>>
          /\ model' = NoModel /\ featureStats' = <<>>
          /\ ~isRecording' /\ ~isAI' /\ score' = 0
          /\ dataBuffer' = <<>> /\ ~jumpScheduled'
          /\ UNCHANGED <<currentLevel, highScore, isPaused>>]_vars

\* restart() has reset a paused engine that had a high score
C36_Witness ==
    /\ reported = <<"menu">> /\ state = "menu"
    /\ highScore > 0 /\ isPaused /\ dataset = <<>> /\ model = NoModel

\* Labelling the recorded rows.  The session starts in a round of the human at
\* the overfitting level, begun with two clicks, the recording switched on.
InitLabel ==
    \E rnd \in RandomGapCenters :
        Start(Session(click(click(startRecording(setLevel(constructed, "overfitting")),
                                  rnd), rnd)))

NextLabel ==
    \/ Update \/ RecordingTick \/ Click \/ StartRecording \/ ClearDataset

SpecLabel == InitLabel /\ [][NextLabel]_vars

\* C37: once a row has been appended to the dataset none of its fields changes:
\* the snapshot that waits for its label is never an element of the dataset, and
\* every step either empties the dataset or leaves the rows it holds as they are.
C37_AppendedRowsFixed ==
    [][/\ bufferRow = 0 /\ bufferRow' = 0
       /\ \/ dataset' = <<>>
          \/ /\ Len(dataset') >= Len(dataset)
             /\ SubSeq(dataset', 1, Len(dataset)) = dataset]_vars

\* two rows with different labels were appended and a third snapshot waits
C37_Witness ==
    /\ nRecorded = 2 /\ Len(dataset) >= 2 /\ dataBuffer # <<>>
    /\ dataset[Len(dataset) - 1].pressed # dataset[Len(dataset)].pressed

\* The count of rows shown by the page.  The session starts as for the labels;
\* files are imported, and the dataset is cleared by the button or by a restart.
InitCount == InitLabel

NextCount ==
    \/ Update \/ RecordingTick
    \/ UploadCSV \/ ClearDataset \/ Restart

SpecCount == InitCount /\ [][NextCount]_vars

\* C38: after every operation that changes the dataset (recording tick,
\* uploadCSV, clearDataset, restart) the last value passed to onDataCountUpdate
\* is the length of the dataset: the count shown never lags the dataset.
C38_CountFollowsDataset == dataCount = Len(dataset)

\* rows were recorded and a file was imported on top of them
C38_Witness ==
    /\ nRecorded > 0 /\ nUploads > 0 /\ Len(dataset) > nRecorded
    /\ dataCount = Len(dataset)

\* The high score.  The session starts in a round of the human, a model trained,
\* two frames before the first obstacle is passed; rounds are ended by a
\* collision or by switching the AI off.
InitScore ==
    \E rnd \in RandomGapCenters :
        Start(Session(Fly(click(click(trained, rnd), rnd),
                          (canvasWidth + pipeWidth - birdX) \div pipeSpeed - 1,
                          rnd, rnd)))

NextScore ==
    \/ Update \/ Click \/ GameOverDelayElapses
    \/ ToggleAI \/ Restart \/ SetLevel

SpecScore == InitScore /\ [][NextScore]_vars

\* C39: highScore never decreases, is at least the score whenever the round
\* state is dead, and is left alone by restart() and setLevel(); onHighScoreUpdate
\* is called exactly when highScore strictly increases, with the new value.
C39_HighScore ==
    [][/\ highScore' >= highScore
       /\ (state' = "dead" => highScore' >= score')
       /\ ((Restart \/ SetLevel) => highScore' = highScore)
       /\ highScoreReports' = IF highScore' > highScore THEN <<highScore'>> ELSE <<>>]_vars

\* a round ended below the high score of an earlier round, without a call
C39_Witness ==
    state = "dead" /\ highScore > 0 /\ score < highScore /\ highScoreReports = <<>>

\* Start inputs after a game-over.  The session starts as for a round in flight;
\* the overlay's button is pressed as well.
InitAgain == InitFlight

NextAgain ==
    \/ Update \/ Click \/ KeyDown \/ KeyUp
    \/ PlayClick \/ GameOverDelayElapses

SpecAgain == InitAgain /\ [][NextAgain]_vars

\* C40: after a game-over in human mode a start input (space key, canvas click or
\* the Play Again button) given before gameOverDelay has elapsed since the time
\* of death leaves the round state dead.
C40_StartAfterDelay ==
    [][(state = "dead" /\ ~isAI /\ ~delayOver /\ (KeyDown \/ Click \/ PlayClick))
          => state' = "dead"]_vars

====
